---------------------------- MODULE Spec2Model ----------------------------
(***************************************************************************)
(* Model of app/src/utils.py: the record normalisation pipeline            *)
(* process_uploaded_file -> process_data | process_ca_data -> rename ->    *)
(* addPauseTimeNullCol -> addTwoNullCols, with read_file in front.         *)
(*                                                                         *)
(* A cell of a pandas DataFrame is a record [k, n, s]:                     *)
(*   k = "int" | "float"   a number, n its value in units of 1/Scale       *)
(*   k = "str"             a text cell, s its characters                   *)
(*   k = "nan"             an empty cell (NaN / NaT)                       *)
(*   k = "ts"              a timestamp, n its instant                      *)
(* Text is a sequence of one-character strings, so that str.replace and    *)
(* float parsing are computed character by character.                      *)
(***************************************************************************)
EXTENDS Integers, Sequences, FiniteSets, TLC

\* ---------------------------------------------------------------- bounds
MaxRows == 2      \* rows of an uploaded table
MaxTime == 3      \* report times are 0..MaxTime

\* ------------------------------------------------------- program constants
Scale == 10000                \* .round(4): numbers carry four decimals
gallon_int == 3               \* gallon = 3.785411784, integer part
gallon_frac_e9 == 785411784   \* gallon = 3.785411784, fraction in 1e-9
feet_squared_e8 == 9290304    \* feet_squared = 0.09290304 in 1e-8

\* ------------------------------------------------------------------ cells
IntCell(v)   == [k |-> "int",   n |-> v * Scale, s |-> <<>>]
FloatCell(n) == [k |-> "float", n |-> n,         s |-> <<>>]
Str(s)   == [k |-> "str",   n |-> 0,         s |-> s]
NaN      == [k |-> "nan",   n |-> 0,         s |-> <<>>]
Ts(t)    == [k |-> "ts",    n |-> t,         s |-> <<>>]

IsNum(c) == c.k \in {"int", "float"}

DASH == <<"-">>
NULL == <<"N", "U", "L", "L">>

Digits == <<"0", "1", "2", "3", "4", "5", "6", "7", "8", "9">>
IsDigit(ch) == \E d \in 1..10 : Digits[d] = ch
DigitVal(ch) == (CHOOSE d \in 1..10 : Digits[d] = ch) - 1

\* str(int): the decimal digits of a natural number.
RECURSIVE FormatNat(_)
FormatNat(v) ==
    IF v < 10 THEN <<Digits[v + 1]>>
    ELSE Append(FormatNat(v \div 10), Digits[(v % 10) + 1])

\* The decimal digits of f, left-padded with zeros to width digits.
RECURSIVE PadDigits(_, _)
PadDigits(f, width) ==
    IF width = 1 THEN <<Digits[f + 1]>>
    ELSE Append(PadDigits(f \div 10, width - 1), Digits[(f % 10) + 1])

\* The fractional digits of f / 10^width, trailing zeros dropped, one kept.
RECURSIVE FormatFrac(_, _)
FormatFrac(f, width) ==
    IF width > 1 /\ f % 10 = 0 THEN FormatFrac(f \div 10, width - 1)
    ELSE PadDigits(f, width)

\* .astype(str) of one cell: str(0) = "0", str(100.0) = "100.0".
ToStr(c) ==
    CASE c.k = "int"   -> FormatNat(c.n \div Scale)
      [] c.k = "float" -> FormatNat(c.n \div Scale) \o <<".">> \o FormatFrac(c.n % Scale, 4)
      [] c.k = "str"   -> c.s
      [] c.k = "nan"   -> <<"n", "a", "n">>
      [] c.k = "ts"    -> <<"T">> \o FormatNat(c.n)

\* .str.replace(",", "", regex=False)
StripCommas(s) == SelectSeq(s, LAMBDA ch : ch # ",")

RECURSIVE DigitsVal(_)
DigitsVal(s) ==
    IF s = <<>> THEN 0
    ELSE 10 * DigitsVal(SubSeq(s, 1, Len(s) - 1)) + DigitVal(s[Len(s)])

AllDigits(s) == \A i \in 1..Len(s) : IsDigit(s[i])

\* First position of "." in s, or Len(s) + 1.
DotPos(s) ==
    IF \E i \in 1..Len(s) : s[i] = "."
    THEN CHOOSE i \in 1..Len(s) : s[i] = "." /\ \A j \in 1..(i - 1) : s[j] # "."
    ELSE Len(s) + 1

IntPart(s)  == SubSeq(s, 1, DotPos(s) - 1)
FracPart(s) == SubSeq(s, DotPos(s) + 1, Len(s))

\* float(s) succeeds on digits with at most one ".", at least one digit.
CanParse(s) ==
    /\ AllDigits(IntPart(s))
    /\ AllDigits(FracPart(s))
    /\ Len(IntPart(s)) + Len(FracPart(s)) > 0

\* Four fractional digits, right-padded with zeros.
RECURSIVE Pad4(_)
Pad4(s) == IF Len(s) >= 4 THEN SubSeq(s, 1, 4) ELSE Pad4(Append(s, "0"))

\* float(s), in units of 1/Scale.
ParseFloat(s) == DigitsVal(IntPart(s)) * Scale + DigitsVal(Pad4(FracPart(s)))

\* round(a / b) to the nearest integer, ties to the even one (numpy's round).
RoundDiv(a, b) ==
    LET q == a \div b
        r == a % b
    IN  IF 2 * r < b THEN q
        ELSE IF 2 * r > b THEN q + 1
        ELSE IF q % 2 = 0 THEN q ELSE q + 1

\* (x * gallon).round(4), in units of 1/Scale, for a whole number x (n =
\* x * Scale).  The constant is split at 1e-4 so that products stay in 32 bits.
TimesGallon(n) ==
    LET v == n \div Scale
    IN  v * gallon_int * Scale
        + v * (gallon_frac_e9 \div 100000)
        + RoundDiv(v * (gallon_frac_e9 % 100000), 100000)

\* (x * feet_squared).round(3), in units of 1/Scale, for a whole number x.
TimesFeetSquared(n) ==
    LET v == n \div Scale
    IN  10 * (v * (feet_squared_e8 \div 100000)
              + RoundDiv(v * (feet_squared_e8 % 100000), 100000))

\* ---------------------------------------------------------------- columns
RT == "Receive task report time"
SN == "S/N"

cols_to_rename ==
    [c \in {"Id", "Robot name", "S/N", "Map name", "Cleaning plan", "User",
            "Task start time", "End time", "Task completion (%)",
            "Actual cleaning area(㎡)", "Actual cleaning area(ft²)",
            "Total time (h)", "Water usage (L)", "Water usage (gal)",
            "Brush (%)", "Filter (%)", "Squeegee(%)",
            "Planned crystallization area (㎡)", "Planned crystallization area (ft²)",
            "Actual crystallization area (㎡)", "Actual crystallization area (ft²)",
            "Cleaning plan area (㎡)", "Cleaning plan area (ft²)",
            "Start battery level (%)", "End battery level (%)",
            "Receive task report time", "Task type", "Download link",
            "Work efficiency (㎡/h)", "Work efficiency (ft²/h)"} |->
        CASE c = "Id" -> "id"
          [] c = "Robot name" -> "robot_name"
          [] c = "S/N" -> "serial_number"
          [] c = "Map name" -> "map_name"
          [] c = "Cleaning plan" -> "task_name"
          [] c = "User" -> "user"
          [] c = "Task start time" -> "start_time"
          [] c = "End time" -> "end_time"
          [] c = "Task completion (%)" -> "task_completion"
          [] c \in {"Actual cleaning area(㎡)", "Actual cleaning area(ft²)"} -> "cleaning_area"
          [] c = "Total time (h)" -> "total_time"
          [] c \in {"Water usage (L)", "Water usage (gal)"} -> "water_usage"
          [] c = "Brush (%)" -> "brush"
          [] c = "Filter (%)" -> "filter_element"
          [] c = "Squeegee(%)" -> "squeegee"
          [] c \in {"Planned crystallization area (㎡)",
                    "Planned crystallization area (ft²)"} -> "created_at"
          [] c \in {"Actual crystallization area (㎡)",
                    "Actual crystallization area (ft²)"} -> "updated_at"
          [] c \in {"Cleaning plan area (㎡)", "Cleaning plan area (ft²)"} -> "area_planned"
          [] c = "Start battery level (%)" -> "start_battery_level"
          [] c = "End battery level (%)" -> "end_battery_level"
          [] c = "Receive task report time" -> "task_report_received"
          [] c = "Task type" -> "cleaning_mode"
          [] c = "Download link" -> "report_link"
          [] c \in {"Work efficiency (㎡/h)", "Work efficiency (ft²/h)"} -> "performance"]

\* process_data's locals
process_data_drop_columns ==
    <<"Total time", "Task status", "Plan running time (s)", "Uncleaned area (㎡)",
      "Task start mode", "Remarks">>

process_data_column_order ==
    <<"Id", "Robot name", "S/N", "Map name", "Cleaning plan", "User",
      "Task start time", "End time", "Task completion (%)",
      "Actual cleaning area(㎡)", "Total time (h)", "Water usage (L)",
      "Brush (%)", "Filter (%)", "Squeegee(%)",
      "Planned crystallization area (㎡)", "Actual crystallization area (㎡)",
      "Cleaning plan area (㎡)", "Start battery level (%)", "End battery level (%)",
      "Receive task report time", "Task type", "Download link",
      "Work efficiency (㎡/h)">>

process_data_columns_to_update ==
    <<"Planned crystallization area (㎡)", "Actual crystallization area (㎡)">>

columns_with_comma_or_pct ==
    <<"Work efficiency (㎡/h)", "Actual cleaning area(㎡)", "Cleaning plan area (㎡)",
      "Brush (%)", "Filter (%)", "Squeegee(%)">>

\* process_ca_data's locals
process_ca_data_drop_columns ==
    <<"Total time", "Task status", "Plan running time (s)", "Uncleaned area (ft²)",
      "Task start mode", "Remarks">>

process_ca_data_column_order ==
    <<"Id", "Robot name", "S/N", "Map name", "Cleaning plan", "User",
      "Task start time", "End time", "Task completion (%)",
      "Actual cleaning area(ft²)", "Total time (h)", "Water usage (gal)",
      "Brush (%)", "Filter (%)", "Squeegee(%)",
      "Planned crystallization area (ft²)", "Actual crystallization area (ft²)",
      "Cleaning plan area (ft²)", "Start battery level (%)", "End battery level (%)",
      "Receive task report time", "Task type", "Download link",
      "Work efficiency (ft²/h)">>

process_ca_data_columns_to_update ==
    <<"Planned crystallization area (ft²)", "Actual crystallization area (ft²)">>

columns_with_comma ==
    <<"Work efficiency (ft²/h)", "Actual cleaning area(ft²)", "Cleaning plan area (ft²)">>

columns_with_pct == <<"Brush (%)", "Filter (%)", "Squeegee(%)">>

Range(q) == {q[i] : i \in 1..Len(q)}

\* ----------------------------------------------------------------- tables
\* A DataFrame: its column labels in order, and its rows in order.  A row
\* carries its cells by column label and `origin`, the position it had in
\* the uploaded file (the pandas index until reset_index; kept afterwards
\* as a history field).
EmptyTable == [cols |-> <<>>, rows |-> <<>>]

HasCol(t, c) == c \in Range(t.cols)

\* The outcome of a step: a table, or the exception that ended the run.
Ok(t) == [err |-> "none", at |-> "", df |-> t]
Raise(kind, at) == [err |-> kind, at |-> at, df |-> EmptyTable]

\* The table with its rows replaced.
WithRows(t, rows) == [t EXCEPT !.rows = rows]

\* One row with its cells replaced.
WithCells(r, cells) == [r EXCEPT !.cells = cells]

\* df[name] = value: overwrite the column, or append it as the last one.
SetColumn(t, name, value) ==
    [cols |-> IF HasCol(t, name) THEN t.cols ELSE Append(t.cols, name),
     rows |-> [i \in 1..Len(t.rows) |->
                 [t.rows[i] EXCEPT !.cells =
                     [c \in DOMAIN t.rows[i].cells \cup {name} |->
                         IF c = name THEN value ELSE t.rows[i].cells[c]]]]]

\* df[order]: select and reorder the columns; KeyError if one is absent.
SelectColumns(t, order) ==
    IF \E i \in 1..Len(order) : ~HasCol(t, order[i])
    THEN Raise("KeyError", "df_filtered[column_order]")
    ELSE Ok([cols |-> order,
             rows |-> [i \in 1..Len(t.rows) |->
                         [t.rows[i] EXCEPT !.cells =
                             [c \in Range(order) |-> t.rows[i].cells[c]]]]])

\* series.isin(values): text equal to one of the listed strings.
isin(cell, values) == cell.k = "str" /\ cell.s \in values

\* --------------------------------------------------- process_data, by step
\* ExcludeRows with the mask not negated: df[df["S/N"].isin(exclude_values)].
ExcludeRows_MaskNotNegated(t, values) ==
    IF values = {} THEN Ok(t)
    ELSE IF ~HasCol(t, SN) THEN Raise("KeyError", "S/N")
    ELSE Ok(WithRows(t, SelectSeq(t.rows, LAMBDA r : isin(r.cells[SN], values))))

\* if exclude_values: df = df[~df["S/N"].isin(exclude_values)]
ExcludeRows(t, values) ==
    IF values = {} THEN Ok(t)
    ELSE IF ~HasCol(t, SN) THEN Raise("KeyError", "S/N")
    ELSE Ok(WithRows(t, SelectSeq(t.rows, LAMBDA r : ~isin(r.cells[SN], values))))

\* df.drop(columns=drop_columns, inplace=True)
DropColumns(t, drops) ==
    IF \E i \in 1..Len(drops) : ~HasCol(t, drops[i])
    THEN Raise("KeyError", "drop_columns")
    ELSE Ok([cols |-> SelectSeq(t.cols, LAMBDA c : c \notin Range(drops)),
             rows |-> [i \in 1..Len(t.rows) |->
                         [t.rows[i] EXCEPT !.cells =
                             [c \in DOMAIN t.rows[i].cells \ Range(drops) |->
                                 t.rows[i].cells[c]]]]])

\* df.insert(0, "Id", np.nan)
InsertId(t) ==
    IF HasCol(t, "Id") THEN Raise("ValueError", "insert Id")
    ELSE Ok([cols |-> <<"Id">> \o t.cols,
             rows |-> [i \in 1..Len(t.rows) |->
                         [t.rows[i] EXCEPT !.cells =
                             [c \in DOMAIN t.rows[i].cells \cup {"Id"} |->
                                 IF c = "Id" THEN NaN ELSE t.rows[i].cells[c]]]]])

\* pd.to_datetime of one cell: a timestamp (or a text that spells one, which
\* the model holds as "ts") stays, an empty cell is NaT, a number counts
\* nanoseconds from the epoch; any other text does not parse.
CanParseTime(c) == c.k # "str"
ToDatetime(c) == IF c.k \in {"int", "float"} THEN Ts(0) ELSE c

\* df[RT] = pd.to_datetime(df[RT])
ParseTimes(t) ==
    WithRows(t, [i \in 1..Len(t.rows) |->
        WithCells(t.rows[i], [c \in DOMAIN t.rows[i].cells |->
            IF c = RT THEN ToDatetime(t.rows[i].cells[c]) ELSE t.rows[i].cells[c]])])

\* FilterByCutoff with >= in place of >.
FilterByCutoff_AtOrAfter(t, cutoff) ==
    IF ~cutoff.ok THEN Raise("ValueError", "strptime")
    ELSE IF ~HasCol(t, RT) THEN Raise("KeyError", RT)
    ELSE IF \E i \in 1..Len(t.rows) : ~CanParseTime(t.rows[i].cells[RT])
    THEN Raise("ValueError", "to_datetime")
    ELSE Ok(WithRows(t, SelectSeq(ParseTimes(t).rows,
              LAMBDA r : r.cells[RT].k = "ts" /\ r.cells[RT].n >= cutoff.t)))

\* selected_datetime = strptime(...); df[RT] = pd.to_datetime(df[RT]);
\* df_filtered = df[df[RT] > selected_datetime]
FilterByCutoff(t, cutoff) ==
    IF ~cutoff.ok THEN Raise("ValueError", "strptime")
    ELSE IF ~HasCol(t, RT) THEN Raise("KeyError", RT)
    ELSE IF \E i \in 1..Len(t.rows) : ~CanParseTime(t.rows[i].cells[RT])
    THEN Raise("ValueError", "to_datetime")
    ELSE Ok(WithRows(t, SelectSeq(ParseTimes(t).rows,
              LAMBDA r : r.cells[RT].k = "ts" /\ r.cells[RT].n > cutoff.t)))

\* Lines 104-127 of process_data, 233-256 of process_ca_data.
\* Each step runs on the table of the one before, unless that one raised.
FilterStage(t, values, cutoff, drops) ==
    LET a == ExcludeRows(t, values)
        b == IF a.err # "none" THEN a ELSE DropColumns(a.df, drops)
        c == IF b.err # "none" THEN b ELSE InsertId(b.df)
        d == IF c.err # "none" THEN c ELSE FilterByCutoff(c.df, cutoff)
    IN  IF d.err # "none" THEN d ELSE ExcludeRows(d.df, values)

\* sort_values(by=RT, ascending=False) with the default kind="quicksort",
\* which is not stable: any order of the rows that is non-increasing in the
\* report time can come out.  reset_index(drop=True) renumbers the rows.
Perms(n) == {p \in [1..n -> 1..n] : \A i, j \in 1..n : i # j => p[i] # p[j]}

\* SortedOrders with ascending=True.
SortedOrders_Ascending(rows) ==
    {p \in Perms(Len(rows)) :
        \A i, j \in 1..Len(rows) :
            i < j => rows[p[i]].cells[RT].n <= rows[p[j]].cells[RT].n}

SortedOrders(rows) ==
    {p \in Perms(Len(rows)) :
        \A i, j \in 1..Len(rows) :
            i < j => rows[p[i]].cells[RT].n >= rows[p[j]].cells[RT].n}

SortOutcomes(t) ==
    {[t EXCEPT !.rows = [i \in 1..Len(t.rows) |-> t.rows[p[i]]]] :
        p \in SortedOrders(t.rows)}

\* for col in column_order: if col not in df_filtered.columns: df_filtered[col] = "NULL"
RECURSIVE EnsureColumns(_, _)
EnsureColumns(t, order) ==
    IF order = <<>> THEN t
    ELSE EnsureColumns(IF HasCol(t, Head(order)) THEN t
                       ELSE SetColumn(t, Head(order), Str(NULL)),
                       Tail(order))

\* UpdateColumns that writes the first of the columns only.
UpdateColumns_FirstOnly(t, columns, value) ==
    WithRows(t, [i \in 1..Len(t.rows) |->
        WithCells(t.rows[i], [c \in DOMAIN t.rows[i].cells |->
            IF c = Head(columns) THEN value ELSE t.rows[i].cells[c]])])

\* df_test.loc[:, columns_to_update] = adjusted_datetime
UpdateColumns(t, columns, value) ==
    WithRows(t, [i \in 1..Len(t.rows) |->
        WithCells(t.rows[i], [c \in DOMAIN t.rows[i].cells |->
            IF c \in Range(columns) THEN value ELSE t.rows[i].cells[c]])])

\* df_test.replace("-", 0): a cell that is exactly "-" becomes the integer 0.
ReplaceDash(t) ==
    WithRows(t, [i \in 1..Len(t.rows) |->
        WithCells(t.rows[i], [c \in DOMAIN t.rows[i].cells |->
            IF t.rows[i].cells[c] = Str(DASH) THEN IntCell(0) ELSE t.rows[i].cells[c]])])

\* df_replaced.fillna("NULL")
FillNa(t) ==
    WithRows(t, [i \in 1..Len(t.rows) |->
        WithCells(t.rows[i], [c \in DOMAIN t.rows[i].cells |->
            IF t.rows[i].cells[c].k = "nan" THEN Str(NULL) ELSE t.rows[i].cells[c]])])

\* series.replace(old, new) on one text: the whole value, never a part of it.
ReplaceWhole(s, old, new) == IF s = old THEN new ELSE s

\* The dtype pandas gives the column: int64 when every cell is an integer,
\* float64 when every cell is a number, object otherwise.
Dtype(t, c) ==
    IF t.rows = <<>> THEN "object"
    ELSE IF \A i \in 1..Len(t.rows) : t.rows[i].cells[c].k = "int" THEN "int64"
    ELSE IF \A i \in 1..Len(t.rows) : IsNum(t.rows[i].cells[c]) THEN "float64"
    ELSE "object"

\* .astype(str).str.replace(",", "").replace("0.00", "0").replace("100.00", "100")
MetricText(v) ==
    ReplaceWhole(ReplaceWhole(StripCommas(ToStr(v)),
                              <<"0", ".", "0", "0">>, <<"0">>),
                 <<"1", "0", "0", ".", "0", "0">>, <<"1", "0", "0">>)

\* The for loop over columns_with_comma_or_pct, lines 191-200.
CoerceMetric(t) ==
    LET touched == {c \in Range(columns_with_comma_or_pct) :
                        Dtype(t, c) \in {"object", "float64"}}
    IN  IF \E i \in 1..Len(t.rows) : \E c \in touched :
               ~CanParse(MetricText(t.rows[i].cells[c]))
        THEN Raise("ValueError", "astype(float)")
        ELSE Ok(WithRows(t, [i \in 1..Len(t.rows) |->
                WithCells(t.rows[i], [c \in DOMAIN t.rows[i].cells |->
                    IF c \in touched
                    THEN FloatCell(ParseFloat(MetricText(t.rows[i].cells[c])))
                    ELSE t.rows[i].cells[c]])]))

\* Lines 132-200 of process_data.
NormalizeMetric(t, adjusted) ==
    LET a == SelectColumns(EnsureColumns(t, process_data_column_order),
                           process_data_column_order)
    IN  IF a.err # "none" THEN a
        ELSE CoerceMetric(FillNa(ReplaceDash(
                 UpdateColumns(a.df, process_data_columns_to_update, adjusted))))

\* ------------------------------------------------ process_ca_data, by step
\* Lines 309-311: the three columns_with_comma become text without commas.
StripCommaColumns(t) ==
    WithRows(t, [i \in 1..Len(t.rows) |->
        WithCells(t.rows[i], [c \in DOMAIN t.rows[i].cells |->
            IF c \in Range(columns_with_comma)
            THEN Str(StripCommas(ToStr(t.rows[i].cells[c])))
            ELSE t.rows[i].cells[c]])])

\* Line 314: (df["Water usage (gal)"] * gallon).apply(pd.to_numeric).round(4);
\* a text cell times a float is a TypeError.
ConvertGallon(t) ==
    IF \E i \in 1..Len(t.rows) : ~IsNum(t.rows[i].cells["Water usage (gal)"])
    THEN Raise("TypeError", "* gallon")
    ELSE Ok(WithRows(t, [i \in 1..Len(t.rows) |->
            WithCells(t.rows[i], [c \in DOMAIN t.rows[i].cells |->
                IF c = "Water usage (gal)"
                THEN FloatCell(TimesGallon(t.rows[i].cells[c].n))
                ELSE t.rows[i].cells[c]])]))

\* ConvertFeetSquared that scales the two area columns only.
ConvertFeetSquared_AreasOnly(t) ==
    IF \E i \in 1..Len(t.rows) : \E c \in Range(columns_with_comma) :
           ~CanParse(ToStr(t.rows[i].cells[c]))
    THEN Raise("ValueError", "to_numeric")
    ELSE Ok(WithRows(t, [i \in 1..Len(t.rows) |->
            WithCells(t.rows[i], [c \in DOMAIN t.rows[i].cells |->
                IF c \in Range(columns_with_comma)
                THEN FloatCell(IF c \in Range(Tail(columns_with_comma))
                               THEN TimesFeetSquared(ParseFloat(ToStr(t.rows[i].cells[c])))
                               ELSE ParseFloat(ToStr(t.rows[i].cells[c])))
                ELSE t.rows[i].cells[c]])]))

\* Lines 315-317: to_numeric * feet_squared, through text and back, round(3).
ConvertFeetSquared(t) ==
    IF \E i \in 1..Len(t.rows) : \E c \in Range(columns_with_comma) :
           ~CanParse(ToStr(t.rows[i].cells[c]))
    THEN Raise("ValueError", "to_numeric")
    ELSE Ok(WithRows(t, [i \in 1..Len(t.rows) |->
            WithCells(t.rows[i], [c \in DOMAIN t.rows[i].cells |->
                IF c \in Range(columns_with_comma)
                THEN FloatCell(TimesFeetSquared(ParseFloat(ToStr(t.rows[i].cells[c]))))
                ELSE t.rows[i].cells[c]])]))

\* Line 318: .replace("0.0", "0").replace("100.00", "100").astype(float)
PctText(v) ==
    ReplaceWhole(ReplaceWhole(ToStr(v), <<"0", ".", "0">>, <<"0">>),
                 <<"1", "0", "0", ".", "0", "0">>, <<"1", "0", "0">>)

CoercePct(t) ==
    IF \E i \in 1..Len(t.rows) : \E c \in Range(columns_with_pct) :
           ~CanParse(PctText(t.rows[i].cells[c]))
    THEN Raise("ValueError", "astype(float)")
    ELSE Ok(WithRows(t, [i \in 1..Len(t.rows) |->
            WithCells(t.rows[i], [c \in DOMAIN t.rows[i].cells |->
                IF c \in Range(columns_with_pct)
                THEN FloatCell(ParseFloat(PctText(t.rows[i].cells[c])))
                ELSE t.rows[i].cells[c]])]))

\* Lines 261-318 of process_ca_data.
NormalizeImperial(t, adjusted) ==
    LET a == SelectColumns(t, process_ca_data_column_order)
        b == IF a.err # "none" THEN a
             ELSE ConvertGallon(StripCommaColumns(FillNa(ReplaceDash(
                      UpdateColumns(a.df, process_ca_data_columns_to_update, adjusted)))))
        c == IF b.err # "none" THEN b ELSE ConvertFeetSquared(b.df)
    IN  IF c.err # "none" THEN c ELSE CoercePct(c.df)

\* ------------------------------------------------------- schema finalizer
\* df_processed.rename(columns=cols_to_rename)
NewName(c) == IF c \in DOMAIN cols_to_rename THEN cols_to_rename[c] ELSE c

Rename(t) ==
    [cols |-> [i \in 1..Len(t.cols) |-> NewName(t.cols[i])],
     rows |-> [i \in 1..Len(t.rows) |->
                 [t.rows[i] EXCEPT !.cells =
                     [n \in {NewName(c) : c \in Range(t.cols)} |->
                         t.rows[i].cells[CHOOSE c \in Range(t.cols) : NewName(c) = n]]]]]

IndexOf(q, x) == CHOOSE i \in 1..Len(q) : q[i] = x

\* addPauseTimeNullCol that leaves the new column where df[...] = put it.
addPauseTimeNullCol_Appended(t) ==
    IF HasCol(t, "total_time") /\ HasCol(t, "water_usage")
    THEN SetColumn(t, "pause_time", Str(NULL))
    ELSE t

addPauseTimeNullCol(t) ==
    IF HasCol(t, "total_time") /\ HasCol(t, "water_usage")
    THEN LET added == SetColumn(t, "pause_time", Str(NULL))
             cols  == SelectSeq(added.cols, LAMBDA c : c # "pause_time")
             idx   == IndexOf(cols, "total_time") + 1
         IN  [added EXCEPT !.cols = SubSeq(cols, 1, idx - 1) \o <<"pause_time">>
                                    \o SubSeq(cols, idx, Len(cols))]
    ELSE t

\* addTwoNullCols that fills with NaN, as its docstring's first line says.
addTwoNullCols_NaN(t) == SetColumn(SetColumn(t, "job_id", NaN), "vendor", NaN)

addTwoNullCols(t) == SetColumn(SetColumn(t, "job_id", Str(NULL)), "vendor", Str(NULL))

\* Lines 438-449 of process_uploaded_file.
Finalize(t, server) ==
    LET renamed == Rename(t)
        paused  == IF server \in {"GS SGV2", "GS AUS"}
                   THEN addPauseTimeNullCol(renamed) ELSE renamed
    IN  IF server # "GS SGV1" THEN addTwoNullCols(paused) ELSE paused

\* ------------------------------------------------------------- read_file
\* What the file holds is a grid of cells: numbers, texts and empty cells.
\* The pandas readers give every column one dtype.
\*
\* A column whose cells are all numbers or empty is numeric: int64, or
\* float64 as soon as one cell is empty or not an integer.
AsFloat(v) == IF v.k = "int" THEN FloatCell(v.n) ELSE v

InferNumeric(t, c) ==
    IF \A i \in 1..Len(t.rows) : t.rows[i].cells[c].k = "int"
    THEN [i \in 1..Len(t.rows) |-> t.rows[i].cells[c]]
    ELSE [i \in 1..Len(t.rows) |-> AsFloat(t.rows[i].cells[c])]

\* pd.read_excel: a cell keeps the type the sheet gives it; a column that
\* holds some text is an object column of numbers and texts.
ExcelColumn(t, c) ==
    IF \A i \in 1..Len(t.rows) : t.rows[i].cells[c].k \in {"int", "float", "nan"}
    THEN InferNumeric(t, c)
    ELSE [i \in 1..Len(t.rows) |-> t.rows[i].cells[c]]

\* pd.read_csv: a cell is a token.  When every token of a column spells a
\* number (or is empty) the column is numeric; otherwise every token stays
\* the text it is, the numbers of that column included.
SpellsNumber(v) == v.k \in {"int", "float", "nan"} \/ (v.k = "str" /\ CanParse(v.s))

CsvNumber(v) == IF v.k = "str" THEN FloatCell(ParseFloat(v.s)) ELSE v

CsvColumn(t, c) ==
    IF \A i \in 1..Len(t.rows) : SpellsNumber(t.rows[i].cells[c])
    THEN InferNumeric([t EXCEPT !.rows =
                          [i \in 1..Len(t.rows) |->
                              [t.rows[i] EXCEPT !.cells[c] = CsvNumber(@)]]], c)
    ELSE [i \in 1..Len(t.rows) |->
             IF IsNum(t.rows[i].cells[c]) THEN Str(ToStr(t.rows[i].cells[c]))
             ELSE t.rows[i].cells[c]]

pd_read_excel(t) ==
    WithRows(t, [i \in 1..Len(t.rows) |->
        WithCells(t.rows[i], [c \in DOMAIN t.rows[i].cells |-> ExcelColumn(t, c)[i]])])

pd_read_csv(t) ==
    WithRows(t, [i \in 1..Len(t.rows) |->
        WithCells(t.rows[i], [c \in DOMAIN t.rows[i].cells |-> CsvColumn(t, c)[i]])])

EndsWith(name, suffix) ==
    /\ Len(name) >= Len(suffix)
    /\ SubSeq(name, Len(name) - Len(suffix) + 1, Len(name)) = suffix

\* The exception raised inside read_file's try block, "none" without one:
\* the else branch raises ValueError, the pandas readers raise on bad bytes.
RaisedInTry(name, parses) ==
    IF EndsWith(name, <<".", "c", "s", "v">>)
       \/ EndsWith(name, <<".", "x", "l", "s">>)
       \/ EndsWith(name, <<".", "x", "l", "s", "x">>)
    THEN IF parses THEN "none" ELSE "ParserError"
    ELSE "ValueError"

\* except Exception as e: raise RuntimeError(...): what the caller sees.
read_file(name, parses) ==
    IF RaisedInTry(name, parses) = "none" THEN "none" ELSE "RuntimeError"

\* The DataFrame read_file returns for a file of that name holding grid t.
Parsed(name, t) ==
    IF EndsWith(name, <<".", "c", "s", "v">>) THEN pd_read_csv(t) ELSE pd_read_excel(t)

\* ------------------------------------------------------------------ inputs
Servers == {"GS SGV1", "GS SGV2", "GS AUS", "GS CA"}

FileNames ==
    {<<"a", ".", "c", "s", "v">>, <<"a", ".", "x", "l", "s", "x">>,
     <<"a", ".", "t", "x", "t">>}

SerialNumbers == {<<"S", "1">>, <<"S", "2">>}
\* exclude_values: None or empty, or a serial number and the text "NULL".
ExcludeChoices == {{}, {<<"S", "1">>, NULL}}

Times == 0..MaxTime

\* selected_datetime_str: a string in "%Y-%m-%d %H:%M:%S" (ok, its instant t,
\* with report times before it, at it and after it) or any other string.
Cutoffs == {[ok |-> TRUE, t |-> 1], [ok |-> FALSE, t |-> 0]}

\* datetime.now() + 9 hours for "GS SGV1", + 8 hours for any other server:
\* "the adjusted datetime based on the server" that process_uploaded_file
\* is given.  The upload happens at MaxTime, after every report.
calculate_adjusted_datetime(server) ==
    Ts(MaxTime + (IF server = "GS SGV1" THEN 9 ELSE 8))

Units == {"metric", "imperial"}
ColumnOrder(unit) ==
    IF unit = "metric" THEN process_data_column_order ELSE process_ca_data_column_order
DropList(unit) ==
    IF unit = "metric" THEN process_data_drop_columns ELSE process_ca_data_drop_columns

\* The columns of an export: the retained ones (without Id) and the
\* administrative ones.
RawColumns(unit) == Tail(ColumnOrder(unit)) \o DropList(unit)

TextColumns ==
    {"Robot name", "Map name", "Cleaning plan", "User", "Task start time", "End time",
     "Task type", "Download link", "Total time", "Task status", "Task start mode",
     "Remarks"}

DefaultCell(c) == IF c \in TextColumns THEN Str(<<"x">>) ELSE IntCell(100)

RawRow(unit, i, sn, t) ==
    [origin |-> i,
     cells  |-> [c \in Range(RawColumns(unit)) |->
                    IF c = SN THEN Str(sn)
                    ELSE IF c = RT THEN Ts(t)
                    ELSE DefaultCell(c)]]

\* Tables whose rows differ in serial number and report time.
PlainTables(unit) ==
    UNION {{[cols |-> RawColumns(unit),
             rows |-> [i \in 1..n |-> RawRow(unit, i, sn[i], tm[i])]] :
               sn \in [1..n -> SerialNumbers], tm \in [1..n -> Times]} :
           n \in 0..MaxRows}

\* What a single cell may hold besides its default.
OddCells ==
    {Str(DASH), NaN, Str(<<"a", "b", "c">>), Str(<<"1", ",", "0", "0", "0">>),
     Str(<<"1", "0", "0", ".", "0", "0">>)}

\* MaxRows rows that pass every filter (serial number S2, the latest time).
FullTable(unit) ==
    [cols |-> RawColumns(unit),
     rows |-> [i \in 1..MaxRows |-> RawRow(unit, i, <<"S", "2">>, MaxTime)]]

\* The full table with one cell of its first row replaced.
OddTables(unit) ==
    {[FullTable(unit) EXCEPT !.rows[1].cells[c] = v] :
        c \in Range(RawColumns(unit)), v \in OddCells}

\* The full table with one column absent.
WithoutColumn(t, gone) ==
    [cols |-> SelectSeq(t.cols, LAMBDA c : c # gone),
     rows |-> [i \in 1..Len(t.rows) |->
                 [t.rows[i] EXCEPT !.cells =
                     [c \in DOMAIN t.rows[i].cells \ {gone} |-> t.rows[i].cells[c]]]]]

ShortTables(unit) ==
    {WithoutColumn(FullTable(unit), c) : c \in Range(RawColumns(unit))}

\* What the uploaded file may hold for a server: an export in the unit of
\* the server's profile, or the full table of the other unit.
Tables(server) ==
    LET u == IF server = "GS CA" THEN "imperial" ELSE "metric"
    IN  PlainTables(u) \cup OddTables(u) \cup ShortTables(u)
            \cup {FullTable(CHOOSE o \in Units : o # u)}

\* ------------------------------------------------------------------- state
VARIABLES
    pc,                     \* where process_uploaded_file stands
    uploaded_file,          \* the name of the uploaded file
    selected_datetime_str,  \* the cutoff
    adjusted_datetime,      \* the adjusted timestamp
    selected_server,        \* the server identity
    exclude_values,         \* the serial numbers to exclude
    raw,                    \* the table read_file returned (history)
    df,                     \* the table being processed
    err                     \* the exception that ended the run

vars == <<pc, uploaded_file, selected_datetime_str, adjusted_datetime,
          selected_server, exclude_values, raw, df, err>>

inputs == <<uploaded_file, selected_datetime_str, adjusted_datetime,
            selected_server, exclude_values>>

NoError == [kind |-> "none", at |-> "", cause |-> "none"]

\* task_function = process_ca_data if selected_server == "GS CA" else process_data
Profile(server) == IF server = "GS CA" THEN "imperial" ELSE "metric"

Init ==
    /\ pc = "start"
    /\ uploaded_file \in FileNames
    /\ selected_datetime_str \in Cutoffs
    /\ selected_server \in Servers
    /\ adjusted_datetime = calculate_adjusted_datetime(selected_server)
    /\ exclude_values \in ExcludeChoices
    /\ raw = EmptyTable
    /\ df = EmptyTable
    /\ err = NoError

\* A step's outcome becomes the state: the table and the next position, or
\* the exception and the end of the run.
Becomes(r, next) ==
    IF r.err = "none"
    THEN /\ df' = r.df
         /\ pc' = next
         /\ err' = err
    ELSE /\ df' = EmptyTable
         /\ pc' = "failed"
         /\ err' = [kind |-> r.err, at |-> r.at, cause |-> r.err]

\* df = read_file(file)
ReadFile ==
    /\ pc = "start"
    /\ \E parses \in BOOLEAN :
         IF read_file(uploaded_file, parses) = "none"
         THEN \E t \in Tables(selected_server) :
                /\ raw' = Parsed(uploaded_file, t)
                /\ df' = Parsed(uploaded_file, t)
                /\ pc' = "read"
                /\ err' = err
         ELSE /\ pc' = "failed"
              /\ err' = [kind  |-> read_file(uploaded_file, parses),
                         at    |-> "read_file",
                         cause |-> RaisedInTry(uploaded_file, parses)]
              /\ UNCHANGED <<raw, df>>
    /\ UNCHANGED inputs

\* Exclusion, column pruning, Id, cutoff filter, exclusion again.
FilterFrame ==
    /\ pc = "read"
    /\ Becomes(FilterStage(df, exclude_values, selected_datetime_str,
                           DropList(Profile(selected_server))), "filtered")
    /\ UNCHANGED <<inputs, raw>>

\* sort_values and reset_index.
SortFrame ==
    /\ pc = "filtered"
    /\ \E t \in SortOutcomes(df) : Becomes(Ok(t), "sorted")
    /\ UNCHANGED <<inputs, raw>>

\* The rest of process_data.
NormalizeData ==
    /\ pc = "sorted"
    /\ Profile(selected_server) = "metric"
    /\ Becomes(NormalizeMetric(df, adjusted_datetime), "processed")
    /\ UNCHANGED <<inputs, raw>>

\* The rest of process_ca_data.
NormalizeCaData ==
    /\ pc = "sorted"
    /\ Profile(selected_server) = "imperial"
    /\ Becomes(NormalizeImperial(df, adjusted_datetime), "processed")
    /\ UNCHANGED <<inputs, raw>>

\* Rename, pause_time, job_id and vendor; process_uploaded_file returns.
FinalizeSchema ==
    /\ pc = "processed"
    /\ Becomes(Ok(Finalize(df, selected_server)), "done")
    /\ UNCHANGED <<inputs, raw>>

Next ==
    \/ ReadFile
    \/ FilterFrame
    \/ SortFrame
    \/ NormalizeData
    \/ NormalizeCaData
    \/ FinalizeSchema

Spec == Init /\ [][Next]_vars

TypeOK ==
    /\ pc \in {"start", "read", "filtered", "sorted", "processed", "done", "failed"}
    /\ selected_server \in Servers
    /\ (pc = "failed") = (err.kind # "none")

\* ------------------------------------------------------------- properties
Done == pc = "done"
Out == 1..Len(df.rows)

\* The cell of output row i under a canonical name.
OutCell(i, name) == df.rows[i].cells[name]

\* The cell that output row i had in the uploaded table under column c, and
\* whether the uploaded table had that column.
SrcCell(i, c) == raw.rows[df.rows[i].origin].cells[c]
SrcHas(i, c) == c \in DOMAIN raw.rows[df.rows[i].origin].cells

Unit == Profile(selected_server)

\* The source columns the run's profile retains, and the two of them that
\* become created_at and updated_at.
Retained == Range(Tail(ColumnOrder(Unit)))
Crystallization ==
    Range(process_data_columns_to_update) \cup Range(process_ca_data_columns_to_update)
NumberIs(c, n) == IsNum(c) /\ c.n = n

\* C1: every row of a returned table has task_report_received strictly
\* greater than the cutoff, and no uploaded row whose report time is at or
\* before the cutoff is among the returned rows, in either profile.
C1_AfterCutoff ==
    Done =>
        /\ \A i \in Out :
              /\ OutCell(i, "task_report_received").k = "ts"
              /\ OutCell(i, "task_report_received").n > selected_datetime_str.t
        /\ \A j \in 1..Len(raw.rows) :
              (raw.rows[j].cells[RT].k = "ts"
               /\ raw.rows[j].cells[RT].n <= selected_datetime_str.t)
                  => \A i \in Out : df.rows[i].origin # j

C1_Witness ==
    /\ Done
    /\ Out # {}
    /\ \E j \in 1..Len(raw.rows) : raw.rows[j].cells[RT].n = selected_datetime_str.t
    /\ \A i \in Out : OutCell(i, "task_report_received").n > selected_datetime_str.t

\* C2 (as amended): the returned rows are ordered by task_report_received,
\* non-increasing from first to last, in either profile.
C2_Descending ==
    Done =>
        \A i, j \in Out :
            i < j => OutCell(i, "task_report_received").n
                        >= OutCell(j, "task_report_received").n

\* C2 (as claimed): non-increasing, and rows with equal report times keep the
\* relative order they had in the uploaded table.
C2_StableDescending ==
    Done =>
        \A i, j \in Out :
            i < j =>
              /\ OutCell(i, "task_report_received").n
                    >= OutCell(j, "task_report_received").n
              /\ OutCell(i, "task_report_received").n
                    = OutCell(j, "task_report_received").n
                    => df.rows[i].origin < df.rows[j].origin

C2_Witness ==
    /\ Done
    /\ \E i, j \in Out :
          /\ i < j
          /\ df.rows[i].origin > df.rows[j].origin
          /\ OutCell(i, "task_report_received").n > OutCell(j, "task_report_received").n

\* C3: in every returned row created_at and updated_at both equal the
\* adjusted timestamp of the run, whatever the source cells held, in either
\* profile.
C3_AdjustedTimestamp ==
    Done =>
        \A i \in Out :
            /\ OutCell(i, "created_at") = adjusted_datetime
            /\ OutCell(i, "updated_at") = adjusted_datetime

C3_Witness ==
    /\ Done
    /\ \E i \in Out : \E c \in Crystallization \cap Range(raw.cols) :
          /\ SrcCell(i, c) = Str(DASH)
          /\ OutCell(i, NewName(c)) = adjusted_datetime

\* The retained columns the uploaded table lacks.
AbsentColumns ==
    {c \in Range(Tail(ColumnOrder(Unit))) : ~HasCol(raw, c)}

\* C4 (as claimed): when a column of the profile's column order is absent
\* from the uploaded table, all the administrative columns being present,
\* the run does not fail and the returned table has the canonical field
\* with "NULL" in every row.

C4_AbsentColumnIsNull ==
    (/\ pc \in {"done", "failed"}
     /\ raw.cols # <<>>
     /\ selected_datetime_str.ok
     /\ Range(DropList(Unit)) \subseteq Range(raw.cols)
     /\ AbsentColumns # {})
        => /\ Done
           /\ \A c \in AbsentColumns :
                 /\ HasCol(df, NewName(c))
                 /\ \A i \in Out : OutCell(i, NewName(c)) = Str(NULL)

\* C5 (as amended): with a non-empty exclusion set, no returned row comes
\* from an uploaded row whose S/N is in the set, and a returned
\* serial_number is a member of the set only as the "NULL" written for an
\* empty S/N cell.
C5_ExcludedRowsAbsent ==
    (Done /\ exclude_values # {}) =>
        \A i \in Out :
            /\ ~isin(SrcCell(i, SN), exclude_values)
            /\ isin(OutCell(i, "serial_number"), exclude_values)
                  => /\ OutCell(i, "serial_number") = Str(NULL)
                     /\ SrcCell(i, SN) = NaN

\* C5 (as claimed): with a non-empty exclusion set, no returned row has a
\* serial_number that is a member of the set.
C5_NoExcludedSerial ==
    (Done /\ exclude_values # {}) =>
        \A i \in Out : ~isin(OutCell(i, "serial_number"), exclude_values)

C5_Witness ==
    /\ Done
    /\ exclude_values # {}
    /\ Out # {}
    /\ \E j \in 1..Len(raw.rows) :
          /\ isin(raw.rows[j].cells[SN], exclude_values)
          /\ raw.rows[j].cells[RT].n > selected_datetime_str.t

\* C6: for "GS SGV2" and "GS AUS" the returned table has pause_time right
\* after total_time and right before water_usage, "NULL" in every row; for
\* every other server it has no pause_time column.
C6_PauseTime ==
    Done =>
        IF selected_server \in {"GS SGV2", "GS AUS"}
        THEN /\ \E k \in 2..(Len(df.cols) - 1) :
                   /\ df.cols[k] = "pause_time"
                   /\ df.cols[k - 1] = "total_time"
                   /\ df.cols[k + 1] = "water_usage"
             /\ \A i \in Out : OutCell(i, "pause_time") = Str(NULL)
        ELSE ~HasCol(df, "pause_time")

C6_Witness ==
    /\ Done
    /\ selected_server = "GS AUS"
    /\ Out # {}
    /\ HasCol(df, "pause_time")

\* C7: for every server but "GS SGV1" the returned table ends with job_id
\* and vendor, "NULL" in every row; for "GS SGV1" it has neither.
C7_JobIdVendor ==
    Done =>
        IF selected_server # "GS SGV1"
        THEN /\ Len(df.cols) >= 2
             /\ df.cols[Len(df.cols) - 1] = "job_id"
             /\ df.cols[Len(df.cols)] = "vendor"
             /\ \A i \in Out :
                   /\ OutCell(i, "job_id") = Str(NULL)
                   /\ OutCell(i, "vendor") = Str(NULL)
        ELSE ~HasCol(df, "job_id") /\ ~HasCol(df, "vendor")

C7_Witness ==
    /\ Done
    /\ selected_server = "GS CA"
    /\ Out # {}
    /\ HasCol(df, "vendor")

\* C8 (as claimed): read_file fails with ValueError exactly when the file
\* name has an unsupported extension, and with RuntimeError when the bytes
\* of a supported file do not parse, so that the caller tells the two apart
\* by the kind of the error.
C8_UnsupportedFormatIsValueError ==
    (pc = "failed" /\ err.at = "read_file") =>
        /\ err.cause = "ValueError" => err.kind = "ValueError"
        /\ err.cause # "ValueError" => err.kind = "RuntimeError"

\* The uploaded file holds a full table of the run's profile in which one
\* retained cell, not the report time, is "-".
OnlyADash ==
    /\ raw.rows # <<>>
    /\ raw.cols = RawColumns(Unit)
    /\ \E c \in Retained \ {RT} :
          /\ raw.rows[1].cells[c] = Str(DASH)
          /\ raw = Parsed(uploaded_file,
                          [FullTable(Unit) EXCEPT !.rows[1].cells[c] = Str(DASH)])

\* C9: in a returned row, a source cell "-" in a retained column comes out
\* as the number 0, and a file whose only irregular cell is a "-" is
\* processed without an error.
C9_DashBecomesZero ==
    /\ Done =>
          \A i \in Out : \A c \in Retained :
              (SrcHas(i, c) /\ SrcCell(i, c) = Str(DASH))
                  => NumberIs(OutCell(i, NewName(c)), 0)
    /\ pc = "failed" => ~(selected_datetime_str.ok /\ OnlyADash)

\* The columns each constant scales in the run's profile.
ByGallon == IF Unit = "imperial" THEN {"Water usage (gal)"} ELSE {}
ByFeetSquared == IF Unit = "imperial" THEN Range(columns_with_comma) ELSE {}
ByFeetSquaredClaimed ==
    IF Unit = "imperial"
    THEN {"Actual cleaning area(ft²)", "Cleaning plan area (ft²)"} ELSE {}

\* Source cells: the number 100, and the text "1,000".
Hundred(v) == NumberIs(v, 100 * Scale)
Thousand == Str(<<"1", ",", "0", "0", "0">>)
CommaColumns == Range(columns_with_comma) \cup Range(columns_with_comma_or_pct)

\* What a returned cell holds for those source cells, in units of 1/Scale,
\* when feet_squared scales areaColumns.
Scaling(areaColumns) ==
    Done =>
        \A i \in Out : \A c \in (Retained \ Crystallization) \ {RT, SN} :
            /\ (SrcHas(i, c) /\ Hundred(SrcCell(i, c))) =>
                  NumberIs(OutCell(i, NewName(c)),
                           IF c \in ByGallon THEN 3785412
                           ELSE IF c \in areaColumns THEN 92900
                           ELSE 1000000)
            /\ (SrcHas(i, c) /\ SrcCell(i, c) = Thousand /\ c \in CommaColumns) =>
                  NumberIs(OutCell(i, NewName(c)),
                           IF c \in areaColumns THEN 929030 ELSE 10000000)

\* C10 (as amended): process_ca_data scales exactly four columns: "Water
\* usage (gal)" by gallon (100 gal -> 378.5412) and "Work efficiency
\* (ft²/h)", "Actual cleaning area(ft²)" and "Cleaning plan area (ft²)" by
\* feet_squared (100 -> 9.29, "1,000" -> 92.903); every other retained
\* numeric cell keeps its value, as every one does in process_data.
C10_FourColumnsScaled == Scaling(ByFeetSquared)

\* C10 (as claimed): only the water column and the two area columns are
\* scaled; "Work efficiency (ft²/h)" keeps its source value.
C10_ThreeColumnsScaled == Scaling(ByFeetSquaredClaimed)

C10_Witness ==
    /\ Done
    /\ Unit = "imperial"
    /\ \E i \in Out :
          /\ SrcHas(i, "Work efficiency (ft²/h)")
          /\ SrcCell(i, "Work efficiency (ft²/h)") = Thousand
          /\ NumberIs(OutCell(i, "performance"), 929030)
          /\ NumberIs(OutCell(i, "water_usage"), 3785412)
          /\ NumberIs(OutCell(i, "total_time"), 1000000)

=============================================================================
